---- MODULE Spec2Model ----
(***************************************************************************)
(* Model of src/server.js: the bridge between a browser peer and the       *)
(* WhatsApp calling API.  The module-level variables of server.js are the  *)
(* state; every Express route, Socket.IO handler, timer callback and       *)
(* promise continuation is one action.  Node runs one handler at a time    *)
(* and a handler gives up control only at an `await` on I/O, so an action  *)
(* is the code between two such awaits.                                    *)
(***************************************************************************)
EXTENDS Integers, Sequences, FiniteSets, TLC

\* ------------------------------------------------------------------ bounds
\* Number of external inputs (HTTP requests and socket events) in a run.
MaxEvents == 3
\* Longest engine-produced answer (in SDP tokens) the rewrite is tried on.
MaxSdpLen == 4

\* ------------------------------------------------------------------ values
Null == "null"
Undef == "undefined"

\* JavaScript truthiness of the values the model uses (!x in the source).
Truthy(v) == v \notin {Null, Undef, ""}

CallIds == {"c1", "c2"}
\* `outgoing_${Date.now()}`, the call id made up when the provider sends none.
GeneratedCallId == "outgoing_ts"
PhoneNumbers == {"n1", "n2"}
\* req.body.phoneNumber: absent, or a number.
PhoneInputs == PhoneNumbers \cup {Undef}
\* req.body.callerName: absent, or a name.
NameInputs == {Undef, "alice"}
Sockets == {"s1"}
\* The SDP a browser-offer event carries.
BrowserSdps == {"b1"}
\* call.session.sdp of a connect event: absent, or an offer.
OfferOf(id) == IF id = "c1" THEN "w1" ELSE "w2"
WebhookSdps(id) == {Undef, OfferOf(id)}
WebhookEvents == {"connect", "terminate", "reject", "timeout", "other"}
\* change.value.contacts[0]: absent, or a profile.
Contacts == {Undef, "bob"}
\* Outcome of one axios.post: data.success === true, a response of another
\* shape, or a rejected request.
RestOutcomes == {"ok", "notok", "err"}
\* response.data.call_id of a successful initiate: absent, or an id.
ResponseCallIds == {"c1", Undef}

\* SDP answers are sequences of tokens; "a=" followed by "setup:actpass" is
\* the text a=setup:actpass.
SdpTokens == {"a=", "setup:actpass", "setup:active", "m"}
\* The answer whatsappPc.createAnswer() produces in the server runs; the
\* rewrite of other answers is explored by SpecRewrite.
EngineAnswers == {<<"m", "a=", "setup:actpass">>}
\* All answers of at most n tokens.
SdpAnswers(n) == UNION {[1..k -> SdpTokens] : k \in 0..n}

VARIABLES
    browserPc,          \* line 83: 0 for null, or the id of the attempt that made it
    browserStream,      \* line 84
    whatsappPc,         \* line 85
    whatsappStream,     \* line 86
    browserOfferSdp,    \* line 87
    whatsappOfferSdp,   \* line 88
    browserSocket,      \* line 89
    currentCallId,      \* line 90
    isOutgoingCall,     \* line 93
    outgoingCallState,  \* line 94
    tasks,              \* the suspended async functions, in creation order
    emitted,            \* socket events emitted by the last step
    sent,               \* REST requests sent by the last step
    httpRes,            \* HTTP response given by the last step, or Null
    step,               \* the last step taken
    nEvents             \* external inputs so far

vars == <<browserPc, browserStream, whatsappPc, whatsappStream, browserOfferSdp,
          whatsappOfferSdp, browserSocket, currentCallId, isOutgoingCall,
          outgoingCallState, tasks, emitted, sent, httpRes, step, nEvents>>

peerVars == <<browserPc, browserStream, whatsappPc, whatsappStream>>
outVars == <<isOutgoingCall, outgoingCallState>>

\* ------------------------------------------------------------------ helpers
IdleState == [phoneNumber |-> Null, callerName |-> Null, callId |-> Null,
              status |-> "idle"]

Emit(ev, to, data) == [ev |-> ev, to |-> to, data |-> data]
Rest(action, target, sdp) == [action |-> action, target |-> target, sdp |-> sdp]

NoTask == [kind |-> "none", pc |-> "done", caller |-> Null, promise |-> Null,
           entry |-> <<>>, waAnswer |-> <<>>, finalSdp |-> <<>>, preId |-> Null,
     log |-> <<>>, req |-> Null]

Step(op, id, ev, task) == [op |-> op, id |-> id, ev |-> ev, task |-> task]

NewId == Len(tasks) + 1
Finish(t) == [tasks EXCEPT ![t] = NoTask]
Live(t, kind, pc) == t \in 1..Len(tasks) /\ tasks[t].kind = kind /\ tasks[t].pc = pc
\* One more external input arrives.
External == nEvents < MaxEvents /\ nEvents' = nEvents + 1

\* ---------------------------------------------------------- pure functions
RECURSIVE FirstActpass(_, _)
\* Index of the first "a=setup:actpass" in s at or after i, 0 when there is none.
FirstActpass(s, i) ==
    IF i + 1 > Len(s) THEN 0
    ELSE IF s[i] = "a=" /\ s[i + 1] = "setup:actpass" THEN i
    ELSE FirstActpass(s, i + 1)

\* A rewrite of every match, as a global pattern would do.
RewriteSetupEveryMatch(s) ==
    [i \in 1..Len(s) |->
        IF i > 1 /\ s[i - 1] = "a=" /\ s[i] = "setup:actpass" THEN "setup:active" ELSE s[i]]

\* waAnswer.sdp.replace("a=setup:actpass", "a=setup:active"): a string pattern
\* replaces the first match only.
RewriteSetup(s) ==
    LET i == FirstActpass(s, 1)
    IN IF i = 0 THEN s ELSE [s EXCEPT ![i + 1] = "setup:active"]

\* The guard without its test of whatsappOfferSdp.
BridgeGuardNoProviderOffer(bo, wo, bs) == Truthy(bo) /\ Truthy(bs)

\* The guard of initiateWebRTCBridge: the attempt goes on only with all three.
BridgeGuard(bo, wo, bs) == Truthy(bo) /\ Truthy(wo) /\ Truthy(bs)

\* The test without its comparison of call ids.
OutgoingMatchAnyCall(out, st, id) == out

\* The test the webhook branches use to recognise the outbound call's events.
OutgoingMatch(out, st, id) == out /\ st.callId = id

\* A result that takes every answered request for a success.
AnswerSucceededUnlessError(outcome) == outcome # "err"

\* answerCallToWhatsApp's result for one REST outcome.
AnswerSucceeded(outcome) == outcome = "ok"

\* What a step records of a settled request: whether data.success was true.
Settled(outcome) == IF outcome = "ok" THEN "ok" ELSE "failed"

ResetState == IdleState

\* --------------------------------------------------------------- the bridge
\* An attempt notes in entry the offers and the socket it works with: what
\* its guard saw and, from line 406 on, the provider offer it set on its
\* peer; in log the operations it has performed.
NewBridge(caller, bo, wo, bs) ==
    [kind |-> "bridge", pc |-> "setRemoteB", caller |-> caller, promise |-> Null,
     entry |-> <<bo, wo, bs>>, waAnswer |-> <<>>, finalSdp |-> <<>>,
     preId |-> Null, log |-> <<>>, req |-> Null]

\* initiateWebRTCBridge up to its first await, called with the globals as
\* the calling handler left them (bo, wo, bs): lines 371-391.
BridgeEntryOn(ts, caller, bo, wo, bs) ==
    IF BridgeGuard(bo, wo, bs)
    THEN /\ browserPc' = NewId
         /\ browserStream' = NewId
         /\ tasks' = Append(ts, NewBridge(caller, bo, wo, bs))
         /\ UNCHANGED <<whatsappPc, whatsappStream>>
    ELSE /\ tasks' = ts
         /\ UNCHANGED peerVars

BridgeEntry(caller, bo, wo, bs) == BridgeEntryOn(tasks, caller, bo, wo, bs)

\* What the handler that awaited the bridge does when the bridge returns
\* (ok) or throws: the webhook route answers 200 or 500, the socket handler
\* has nothing after the call.
CallerResult(caller, ok) ==
    IF caller = "webhook" THEN (IF ok THEN "200" ELSE "500") ELSE Null

\* The bridge throws out of its await (a rejected waTrackPromise, or
\* setRemoteDescription refusing an offer that is no SDP).  The webhook route
\* catches it; in the socket handler the rejection is unhandled and the
\* server runs on.
BridgeThrows(t) ==
    /\ tasks' = Finish(t)
    /\ httpRes' = CallerResult(tasks[t].caller, FALSE)
    /\ emitted' = <<>>
    /\ sent' = <<>>

\* browserPc.setRemoteDescription resolved: lines 392-411.  The provider
\* offer is read again from the global here.
BridgeBrowserOfferSet(t) ==
    /\ Live(t, "bridge", "setRemoteB")
    /\ whatsappPc' = t
    /\ IF Truthy(whatsappOfferSdp)
       THEN /\ tasks' = [tasks EXCEPT ![t].pc = "setRemoteW", ![t].promise = "pending",
                                       ![t].entry[2] = whatsappOfferSdp]
            /\ httpRes' = Null /\ emitted' = <<>> /\ sent' = <<>>
       ELSE BridgeThrows(t)
    /\ step' = Step("bridge-browser-offer-set", Null, Null, t)
    /\ UNCHANGED nEvents
    /\ UNCHANGED <<browserPc, browserStream, whatsappStream, browserOfferSdp,
                   whatsappOfferSdp, browserSocket, currentCallId, outVars>>

\* The operations attempt t has performed, with ops added.
Did(t, ops) == tasks[t].log \o ops

\* The continuation without lines 423-425: the answer is asked for with the
\* provider's track not yet added to the browser peer.
AfterTrackNoForward(t, done) ==
    tasks' = [tasks EXCEPT ![t].pc = "createAnswerB", ![t].promise = "resolved",
                           ![t].log = Did(t, done \o <<"createAnswerB">>)]

\* Lines 422-428 once waTrackPromise has resolved, after the operations done
\* of the same step: the provider's track is added to the browser peer and
\* the browser answer is asked for.
AfterTrack(t, done) ==
    tasks' = [tasks EXCEPT ![t].pc = "createAnswerB", ![t].promise = "resolved",
                           ![t].log = Did(t, done \o <<"forwardW", "createAnswerB">>)]

\* whatsappPc.setRemoteDescription resolved: lines 411-420.
BridgeWhatsappOfferSet(t) ==
    /\ Live(t, "bridge", "setRemoteW")
    /\ CASE tasks[t].promise = "pending" ->
              /\ tasks' = [tasks EXCEPT ![t].pc = "waitTrack",
                                        ![t].log = Did(t, <<"forwardB">>)]
              /\ httpRes' = Null /\ emitted' = <<>> /\ sent' = <<>>
         [] tasks[t].promise = "resolved" ->
              /\ AfterTrack(t, <<"forwardB">>)
              /\ httpRes' = Null /\ emitted' = <<>> /\ sent' = <<>>
         [] OTHER -> BridgeThrows(t)
    /\ step' = Step("bridge-whatsapp-offer-set", Null, Null, t)
    /\ UNCHANGED nEvents
    /\ UNCHANGED <<peerVars, browserOfferSdp, whatsappOfferSdp, browserSocket,
                   currentCallId, outVars>>

\* The ontrack callback of the attempt's provider peer: lines 399-404.
WhatsappTrack(t) ==
    /\ t \in 1..Len(tasks) /\ tasks[t].kind = "bridge"
    /\ tasks[t].pc \in {"setRemoteW", "waitTrack"}
    /\ tasks[t].promise = "pending"
    /\ whatsappStream' = t
    /\ IF tasks[t].pc = "waitTrack" THEN AfterTrack(t, <<>>)
       ELSE tasks' = [tasks EXCEPT ![t].promise = "resolved"]
    /\ httpRes' = Null /\ emitted' = <<>> /\ sent' = <<>>
    /\ step' = Step("whatsapp-track", Null, Null, t)
    /\ UNCHANGED nEvents
    /\ UNCHANGED <<browserPc, browserStream, whatsappPc, browserOfferSdp,
                   whatsappOfferSdp, browserSocket, currentCallId, outVars>>

\* The 10 s timer of line 398 fires before a track came.
TrackTimeout(t) ==
    /\ t \in 1..Len(tasks) /\ tasks[t].kind = "bridge"
    /\ tasks[t].pc \in {"setRemoteW", "waitTrack"}
    /\ tasks[t].promise = "pending"
    /\ IF tasks[t].pc = "waitTrack" THEN BridgeThrows(t)
       ELSE /\ tasks' = [tasks EXCEPT ![t].promise = "rejected"]
            /\ httpRes' = Null /\ emitted' = <<>> /\ sent' = <<>>
    /\ step' = Step("track-timeout", Null, Null, t)
    /\ UNCHANGED nEvents
    /\ UNCHANGED <<peerVars, browserOfferSdp, whatsappOfferSdp, browserSocket,
                   currentCallId, outVars>>

\* browserPc.createAnswer resolved: line 429.
BridgeBrowserAnswerCreated(t) ==
    /\ Live(t, "bridge", "createAnswerB")
    /\ tasks' = [tasks EXCEPT ![t].pc = "setLocalB"]
    /\ httpRes' = Null /\ emitted' = <<>> /\ sent' = <<>>
    /\ step' = Step("bridge-browser-answer-created", Null, Null, t)
    /\ UNCHANGED nEvents
    /\ UNCHANGED <<peerVars, browserOfferSdp, whatsappOfferSdp, browserSocket,
                   currentCallId, outVars>>

\* browserPc.setLocalDescription resolved: lines 430-433.
BridgeBrowserAnswerSet(t) ==
    /\ Live(t, "bridge", "setLocalB")
    /\ tasks' = [tasks EXCEPT ![t].pc = "createAnswerW",
                              ![t].log = Did(t, <<"browser-answer", "createAnswerW">>)]
    /\ emitted' = <<Emit("browser-answer", browserSocket, <<"answer">>)>>
    /\ httpRes' = Null /\ sent' = <<>>
    /\ step' = Step("bridge-browser-answer-set", Null, Null, t)
    /\ UNCHANGED nEvents
    /\ UNCHANGED <<peerVars, browserOfferSdp, whatsappOfferSdp, browserSocket,
                   currentCallId, outVars>>

\* whatsappPc.createAnswer resolved with answer ans: line 434.
BridgeWhatsappAnswerCreated(t, ans) ==
    /\ Live(t, "bridge", "createAnswerW")
    /\ tasks' = [tasks EXCEPT ![t].pc = "setLocalW", ![t].waAnswer = ans]
    /\ httpRes' = Null /\ emitted' = <<>> /\ sent' = <<>>
    /\ step' = Step("bridge-whatsapp-answer-created", Null, Null, t)
    /\ UNCHANGED nEvents
    /\ UNCHANGED <<peerVars, browserOfferSdp, whatsappOfferSdp, browserSocket,
                   currentCallId, outVars>>

\* whatsappPc.setLocalDescription resolved: lines 435-439, up to the
\* axios.post of answerCallToWhatsApp.
BridgeWhatsappAnswerSet(t) ==
    /\ Live(t, "bridge", "setLocalW")
    /\ LET final == RewriteSetup(tasks[t].waAnswer)
       IN /\ tasks' = [tasks EXCEPT ![t].pc = "preAccept", ![t].finalSdp = final,
                                    ![t].preId = currentCallId,
                                    ![t].log = Did(t, <<"pre_accept">>)]
          /\ sent' = <<Rest("pre_accept", currentCallId, final)>>
    /\ httpRes' = Null /\ emitted' = <<>>
    /\ step' = Step("bridge-whatsapp-answer-set", Null, Null, t)
    /\ UNCHANGED nEvents
    /\ UNCHANGED <<peerVars, browserOfferSdp, whatsappOfferSdp, browserSocket,
                   currentCallId, outVars>>

\* A reset of the offers in the success branch only.
OfferAfterBridgeKeptOnFailure(ok, offer) == IF ok THEN Null ELSE offer

\* Lines 452-454: what a stored offer becomes at the end of the attempt,
\* whether pre_accept succeeded (ok) or not; the reset is after the if/else.
OfferAfterBridge(ok, offer) == Null

\* The pre_accept request settled: lines 441-455, and the return to the
\* caller.
PreAcceptResponse(t, outcome) ==
    /\ Live(t, "bridge", "preAccept")
    /\ IF AnswerSucceeded(outcome)
       THEN tasks' = [tasks EXCEPT ![t].pc = "timer",
                                   ![t].log = Did(t, <<"pre_accept-ok">>)]
       ELSE tasks' = Finish(t)
    /\ browserOfferSdp' = OfferAfterBridge(AnswerSucceeded(outcome), browserOfferSdp)
    /\ whatsappOfferSdp' = OfferAfterBridge(AnswerSucceeded(outcome), whatsappOfferSdp)
    /\ httpRes' = CallerResult(tasks[t].caller, TRUE)
    /\ emitted' = <<>> /\ sent' = <<>>
    /\ step' = Step("pre-accept-response", Null, Settled(outcome), t)
    /\ UNCHANGED nEvents
    /\ UNCHANGED <<peerVars, browserSocket, currentCallId, outVars>>

\* The 1 s timer of line 442 fires: line 443 up to the axios.post.
AcceptTimer(t) ==
    /\ Live(t, "bridge", "timer")
    /\ tasks' = [tasks EXCEPT ![t].pc = "accept", ![t].log = Did(t, <<"accept">>)]
    /\ sent' = <<Rest("accept", currentCallId, tasks[t].finalSdp)>>
    /\ httpRes' = Null /\ emitted' = <<>>
    /\ step' = Step("accept-timer", Null, Null, t)
    /\ UNCHANGED nEvents
    /\ UNCHANGED <<peerVars, browserOfferSdp, whatsappOfferSdp, browserSocket,
                   currentCallId, outVars>>

\* The accept request settled: lines 444-446.
AcceptResponse(t, outcome) ==
    /\ Live(t, "bridge", "accept")
    /\ tasks' = Finish(t)
    /\ emitted' = IF AnswerSucceeded(outcome) /\ Truthy(browserSocket)
                  THEN <<Emit("start-browser-timer", browserSocket, <<>>)>>
                  ELSE <<>>
    /\ httpRes' = Null /\ sent' = <<>>
    /\ step' = Step("accept-response", Null, Settled(outcome), t)
    /\ UNCHANGED nEvents
    /\ UNCHANGED <<peerVars, browserOfferSdp, whatsappOfferSdp, browserSocket,
                   currentCallId, outVars>>

\* ------------------------------------------------------------ HTTP routes
\* The initiate requests still in flight were sent for a call request that
\* a newly accepted call request replaces (a note for the properties; the
\* code keeps no such record).
EarlierRequest(ts) ==
    [t \in 1..Len(ts) |->
        IF ts[t].kind = "offer" THEN [ts[t] EXCEPT !.req = "earlier"] ELSE ts[t]]

\* POST /initiate-call: lines 329-365.
InitiateCall(phone, name) ==
    /\ External
    /\ IF ~Truthy(phone)
       THEN /\ httpRes' = "400"
            /\ emitted' = <<>>
            /\ UNCHANGED outVars
       ELSE LET shown == IF Truthy(name) THEN name ELSE "Outgoing Call"
            IN /\ isOutgoingCall' = TRUE
               /\ outgoingCallState' = [phoneNumber |-> phone, callerName |-> shown,
                                        callId |-> Null, status |-> "waiting-for-sdp"]
               /\ emitted' = <<Emit("start-outgoing-call-webrtc", "all", <<phone, shown>>)>>
               /\ httpRes' = "200"
    /\ tasks' = IF Truthy(phone) THEN EarlierRequest(tasks) ELSE tasks
    /\ sent' = <<>>
    /\ step' = Step("initiate-call", phone, Null, 0)
    /\ UNCHANGED <<peerVars, browserOfferSdp, whatsappOfferSdp, browserSocket,
                   currentCallId>>

\* POST /webhook with no call, no call.id or no call.event: lines 252-255.
WebhookMalformed(id, ev) ==
    /\ External
    /\ ~Truthy(id) \/ ~Truthy(ev)
    /\ httpRes' = "200"
    /\ emitted' = <<>> /\ sent' = <<>>
    /\ step' = Step("webhook-malformed", Null, Null, 0)
    /\ UNCHANGED <<peerVars, browserOfferSdp, whatsappOfferSdp, browserSocket,
                   currentCallId, outVars, tasks>>

\* The initiate requests in flight for the stored call request note that a
\* connect event for call id was handled as an incoming call (a note for the
\* properties; the code keeps no such record).
TakenAsIncoming(ts, id) ==
    [t \in 1..Len(ts) |->
        IF ts[t].kind = "offer" /\ ts[t].req = "current"
              /\ \A i \in 1..Len(ts[t].log) : ts[t].log[i] # id
        THEN [ts[t] EXCEPT !.log = Append(@, id)]
        ELSE ts[t]]

\* POST /webhook, event connect: lines 257-279, 319.
WebhookConnect(id, sdp, contact) ==
    /\ External
    /\ currentCallId' = id
    /\ whatsappOfferSdp' = sdp
    /\ LET callerName == IF Truthy(contact) THEN contact ELSE "Unknown"
           callerNumber == IF Truthy(contact) THEN contact ELSE "Unknown"
       IN IF OutgoingMatch(isOutgoingCall, outgoingCallState, id)
          THEN /\ outgoingCallState' = [outgoingCallState EXCEPT !.status = "connected"]
               /\ emitted' = <<Emit("outgoing-call-connected", "all",
                                    <<id, callerNumber, callerName>>)>>
          ELSE /\ outgoingCallState' = outgoingCallState
               /\ emitted' = <<Emit("call-is-coming", "all",
                                    <<id, callerName, callerNumber>>)>>
    /\ BridgeEntryOn(IF OutgoingMatch(isOutgoingCall, outgoingCallState, id)
                     THEN tasks ELSE TakenAsIncoming(tasks, id),
                     "webhook", browserOfferSdp, sdp, browserSocket)
    /\ httpRes' = IF BridgeGuard(browserOfferSdp, sdp, browserSocket) THEN Null ELSE "200"
    /\ sent' = <<>>
    /\ step' = Step("webhook", id, "connect", 0)
    /\ UNCHANGED <<browserOfferSdp, browserSocket, isOutgoingCall>>

\* POST /webhook, event terminate: lines 257-258, 281-293, 319.
WebhookTerminate(id) ==
    /\ External
    /\ currentCallId' = id
    /\ IF OutgoingMatch(isOutgoingCall, outgoingCallState, id)
       THEN isOutgoingCall' = FALSE /\ outgoingCallState' = ResetState
       ELSE UNCHANGED outVars
    /\ emitted' = <<Emit("call-ended", "all", <<>>)>>
    /\ httpRes' = "200"
    /\ sent' = <<>>
    /\ step' = Step("webhook", id, "terminate", 0)
    /\ UNCHANGED <<peerVars, browserOfferSdp, whatsappOfferSdp, browserSocket, tasks>>

\* POST /webhook, event reject: lines 257-258, 295-303, 319.
WebhookReject(id) ==
    /\ External
    /\ currentCallId' = id
    /\ IF OutgoingMatch(isOutgoingCall, outgoingCallState, id)
       THEN /\ isOutgoingCall' = FALSE /\ outgoingCallState' = ResetState
            /\ emitted' = <<Emit("outgoing-call-rejected", "all",
                                 <<id, outgoingCallState.phoneNumber>>)>>
       ELSE /\ UNCHANGED outVars
            /\ emitted' = <<>>
    /\ httpRes' = "200"
    /\ sent' = <<>>
    /\ step' = Step("webhook", id, "reject", 0)
    /\ UNCHANGED <<peerVars, browserOfferSdp, whatsappOfferSdp, browserSocket, tasks>>

\* POST /webhook, event timeout: lines 257-258, 305-313, 319.
WebhookTimeout(id) ==
    /\ External
    /\ currentCallId' = id
    /\ IF OutgoingMatch(isOutgoingCall, outgoingCallState, id)
       THEN /\ isOutgoingCall' = FALSE /\ outgoingCallState' = ResetState
            /\ emitted' = <<Emit("outgoing-call-timeout", "all",
                                 <<id, outgoingCallState.phoneNumber>>)>>
       ELSE /\ UNCHANGED outVars
            /\ emitted' = <<>>
    /\ httpRes' = "200"
    /\ sent' = <<>>
    /\ step' = Step("webhook", id, "timeout", 0)
    /\ UNCHANGED <<peerVars, browserOfferSdp, whatsappOfferSdp, browserSocket, tasks>>

\* POST /webhook, any other event: lines 257-258, 315-319.
WebhookOther(id) ==
    /\ External
    /\ currentCallId' = id
    /\ httpRes' = "200"
    /\ emitted' = <<>> /\ sent' = <<>>
    /\ step' = Step("webhook", id, "other", 0)
    /\ UNCHANGED <<peerVars, browserOfferSdp, whatsappOfferSdp, browserSocket,
                   outVars, tasks>>

\* ---------------------------------------------------------- socket events
\* A handler suspended at the await of a REST call.
NewRest(kind) ==
    [kind |-> kind, pc |-> "rest", caller |-> Null, promise |-> Null,
     entry |-> <<>>, waAnswer |-> <<>>, finalSdp |-> <<>>, preId |-> Null,
     log |-> <<>>, req |-> Null]

\* The test with the wrong status: an offer is taken for the outbound call
\* only once the call rings.
IsOutgoingOfferWhenRinging(out, st) == out /\ st.status = "ringing"

\* Line 160: the offer belongs to an outbound call that waits for it.
IsOutgoingOffer(out, st) == out /\ st.status = "waiting-for-sdp"

\* socket.on("browser-offer"): lines 154-187, up to the first await.
BrowserOffer(sock, sdp) ==
    /\ External
    /\ browserOfferSdp' = sdp
    /\ browserSocket' = sock
    /\ IF IsOutgoingOffer(isOutgoingCall, outgoingCallState)
       THEN /\ tasks' = Append(tasks, [NewRest("offer") EXCEPT !.req = "current"])
            /\ sent' = <<Rest("connect", outgoingCallState.phoneNumber, sdp)>>
            /\ step' = Step("browser-offer", sock, "outgoing", 0)
            /\ UNCHANGED peerVars
       ELSE /\ BridgeEntry("offer", sdp, whatsappOfferSdp, sock)
            /\ sent' = <<>>
            /\ step' = Step("browser-offer", sock, "incoming", 0)
    /\ emitted' = <<>>
    /\ httpRes' = Null
    /\ UNCHANGED <<whatsappOfferSdp, currentCallId, outVars>>

\* initiateWhatsAppCall's result (lines 487-517) and the rest of the
\* browser-offer handler (lines 166-182).
InitiateResponse(t, outcome, cid) ==
    /\ Live(t, "offer", "rest")
    /\ outcome = "ok" \/ cid = Undef
    /\ IF outcome = "ok"
       THEN LET callId == IF Truthy(cid) THEN cid ELSE GeneratedCallId
            IN /\ currentCallId' = callId
               /\ outgoingCallState' = [outgoingCallState EXCEPT !.callId = callId,
                                                                 !.status = "ringing"]
               /\ isOutgoingCall' = isOutgoingCall
               /\ emitted' = <<Emit("outgoing-call-initiated", "all",
                                    <<callId, outgoingCallState.phoneNumber,
                                      outgoingCallState.callerName>>)>>
       ELSE /\ isOutgoingCall' = FALSE /\ outgoingCallState' = ResetState
            /\ emitted' = <<Emit("webrtc-error", "all", <<>>)>>
            /\ UNCHANGED currentCallId
    /\ tasks' = Finish(t)
    /\ httpRes' = Null /\ sent' = <<>>
    /\ step' = Step("initiate-response", cid, Settled(outcome), t)
    /\ UNCHANGED nEvents
    /\ UNCHANGED <<peerVars, browserOfferSdp, whatsappOfferSdp, browserSocket>>

\* Lines 222-226: the reset, then the event built from the reset state.
RejectOutboundTail ==
    /\ isOutgoingCall' = FALSE
    /\ outgoingCallState' = ResetState
    /\ emitted' = <<Emit("outgoing-call-rejected", "all",
                         <<ResetState.callId, ResetState.phoneNumber>>)>>

\* Lines 235-236.
TerminateOutboundTail ==
    /\ isOutgoingCall' = FALSE
    /\ outgoingCallState' = ResetState
    /\ emitted' = <<Emit("call-ended", "all", <<>>)>>

\* socket.on("reject-outbound-call"): lines 216-227, up to the await.  The
\* request notes in entry the call id and the number the session holds.
RejectOutbound(sock) ==
    /\ External
    /\ IF Truthy(outgoingCallState.callId)
       THEN /\ tasks' = Append(tasks,
                [NewRest("rejectOut") EXCEPT
                    !.entry = <<outgoingCallState.callId, outgoingCallState.phoneNumber>>])
            /\ sent' = <<Rest("reject", outgoingCallState.callId, Null)>>
            /\ emitted' = <<>>
            /\ UNCHANGED outVars
       ELSE /\ RejectOutboundTail
            /\ sent' = <<>>
            /\ UNCHANGED tasks
    /\ httpRes' = Null
    /\ step' = Step("reject-outbound-call", sock, Null, 0)
    /\ UNCHANGED <<peerVars, browserOfferSdp, whatsappOfferSdp, browserSocket,
                   currentCallId>>

\* rejectCall settled: lines 220-227.
RejectOutboundResponse(t, outcome) ==
    /\ Live(t, "rejectOut", "rest")
    /\ RejectOutboundTail
    /\ tasks' = Finish(t)
    /\ httpRes' = Null /\ sent' = <<>>
    /\ step' = Step("reject-outbound-response", Null, Settled(outcome), t)
    /\ UNCHANGED nEvents
    /\ UNCHANGED <<peerVars, browserOfferSdp, whatsappOfferSdp, browserSocket,
                   currentCallId>>

\* socket.on("terminate-outbound-call"): lines 229-237, up to the await.
TerminateOutbound(sock) ==
    /\ External
    /\ IF Truthy(outgoingCallState.callId)
       THEN /\ tasks' = Append(tasks, NewRest("terminateOut"))
            /\ sent' = <<Rest("terminate", outgoingCallState.callId, Null)>>
            /\ emitted' = <<>>
            /\ UNCHANGED outVars
       ELSE /\ TerminateOutboundTail
            /\ sent' = <<>>
            /\ UNCHANGED tasks
    /\ httpRes' = Null
    /\ step' = Step("terminate-outbound-call", sock, Null, 0)
    /\ UNCHANGED <<peerVars, browserOfferSdp, whatsappOfferSdp, browserSocket,
                   currentCallId>>

\* terminateCall settled: lines 233-236.
TerminateOutboundResponse(t, outcome) ==
    /\ Live(t, "terminateOut", "rest")
    /\ TerminateOutboundTail
    /\ tasks' = Finish(t)
    /\ httpRes' = Null /\ sent' = <<>>
    /\ step' = Step("terminate-outbound-response", Null, Settled(outcome), t)
    /\ UNCHANGED nEvents
    /\ UNCHANGED <<peerVars, browserOfferSdp, whatsappOfferSdp, browserSocket,
                   currentCallId>>

\* socket.on("reject-call") and socket.on("terminate-call"): lines 204-213.
\* The handlers send the request and log its result.
BrowserCallAction(sock, action, id) ==
    /\ External
    /\ sent' = <<Rest(action, id, Null)>>
    /\ emitted' = <<>>
    /\ httpRes' = Null
    /\ step' = Step(action, id, Null, 0)
    /\ UNCHANGED <<peerVars, browserOfferSdp, whatsappOfferSdp, browserSocket,
                   currentCallId, outVars, tasks>>

\* ------------------------------------------------------------ the system
Init ==
    /\ browserPc = 0 /\ browserStream = 0
    /\ whatsappPc = 0 /\ whatsappStream = 0
    /\ browserOfferSdp = Null /\ whatsappOfferSdp = Null
    /\ browserSocket = Null /\ currentCallId = Null
    /\ isOutgoingCall = FALSE
    /\ outgoingCallState = IdleState
    /\ tasks = <<>>
    /\ emitted = <<>> /\ sent = <<>> /\ httpRes = Null
    /\ step = Step("init", Null, Null, 0)
    /\ nEvents = 0

Next ==
    \/ \E p \in PhoneInputs, n \in NameInputs : InitiateCall(p, n)
    \/ \E id \in CallIds \cup {Undef}, ev \in WebhookEvents \cup {Undef} :
          WebhookMalformed(id, ev)
    \/ \E id \in CallIds : \E sdp \in WebhookSdps(id), c \in Contacts : WebhookConnect(id, sdp, c)
    \/ \E id \in CallIds : WebhookTerminate(id)
    \/ \E id \in CallIds : WebhookReject(id)
    \/ \E id \in CallIds : WebhookTimeout(id)
    \/ \E id \in CallIds : WebhookOther(id)
    \/ \E s \in Sockets, sdp \in BrowserSdps : BrowserOffer(s, sdp)
    \/ \E s \in Sockets : RejectOutbound(s)
    \/ \E s \in Sockets : TerminateOutbound(s)
    \/ \E s \in Sockets, a \in {"reject", "terminate"}, id \in CallIds :
          BrowserCallAction(s, a, id)
    \/ \E t \in 1..Len(tasks), o \in RestOutcomes, cid \in ResponseCallIds :
          InitiateResponse(t, o, cid)
    \/ \E t \in 1..Len(tasks), o \in RestOutcomes : RejectOutboundResponse(t, o)
    \/ \E t \in 1..Len(tasks), o \in RestOutcomes : TerminateOutboundResponse(t, o)
    \/ \E t \in 1..Len(tasks) : BridgeBrowserOfferSet(t)
    \/ \E t \in 1..Len(tasks) : BridgeWhatsappOfferSet(t)
    \/ \E t \in 1..Len(tasks) : WhatsappTrack(t)
    \/ \E t \in 1..Len(tasks) : TrackTimeout(t)
    \/ \E t \in 1..Len(tasks) : BridgeBrowserAnswerCreated(t)
    \/ \E t \in 1..Len(tasks) : BridgeBrowserAnswerSet(t)
    \/ \E t \in 1..Len(tasks), a \in EngineAnswers : BridgeWhatsappAnswerCreated(t, a)
    \/ \E t \in 1..Len(tasks) : BridgeWhatsappAnswerSet(t)
    \/ \E t \in 1..Len(tasks), o \in RestOutcomes : PreAcceptResponse(t, o)
    \/ \E t \in 1..Len(tasks) : AcceptTimer(t)
    \/ \E t \in 1..Len(tasks), o \in RestOutcomes : AcceptResponse(t, o)

Spec == Init /\ [][Next]_vars

\* ------------------------------------------------- the rewrite on its own
\* A bridge attempt about to send its answer, for every bounded engine
\* answer: the state of line 434 after a browser offer and a connect event.
InitRewrite ==
    /\ browserPc = 1 /\ browserStream = 1
    /\ whatsappPc = 1 /\ whatsappStream = 1
    /\ browserOfferSdp = "b1" /\ whatsappOfferSdp = "w1"
    /\ browserSocket = "s1" /\ currentCallId = "c1"
    /\ isOutgoingCall = FALSE
    /\ outgoingCallState = IdleState
    /\ \E a \in SdpAnswers(MaxSdpLen) :
          tasks = <<[NewBridge("offer", "b1", "w1", "s1") EXCEPT
                        !.pc = "setLocalW", !.promise = "resolved", !.waAnswer = a,
                        !.log = <<"forwardB", "forwardW", "createAnswerB",
                                  "browser-answer", "createAnswerW">>]>>
    /\ emitted = <<>> /\ sent = <<>> /\ httpRes = Null
    /\ step = Step("bridge-whatsapp-answer-created", Null, Null, 1)
    /\ nEvents = 2

NextRewrite ==
    \/ BridgeWhatsappAnswerSet(1)
    \/ \E o \in RestOutcomes : PreAcceptResponse(1, o)
    \/ AcceptTimer(1)
    \/ \E o \in RestOutcomes : AcceptResponse(1, o)

SpecRewrite == InitRewrite /\ [][NextRewrite]_vars

\* ------------------------------------------------ webhook verification
\* Line 73: the configured verification token (the default of the source).
VERIFY_TOKEN == "sandeep_bora"

\* The query parameters of a verification request; Undef is a parameter that
\* is not in the query, "" one that is there with an empty value.
VerifyModes == {Undef, "", "subscribe", "unsubscribe", "Subscribe"}
VerifyTokens == {Undef, "", VERIFY_TOKEN, "sandeep", "wrong"}
Challenges == {Undef, "", "1158201444", "ch2", "ch3"}

\* The check without the mode comparison: any mode passes with the token.
VerifyStatusAnyMode(mode, token) ==
    IF Truthy(mode) /\ Truthy(token)
    THEN IF token = VERIFY_TOKEN THEN "200" ELSE "403"
    ELSE "400"

\* Lines 131-144: the status of the answer.
VerifyStatus(mode, token) ==
    IF Truthy(mode) /\ Truthy(token)
    THEN IF mode = "subscribe" /\ token = VERIFY_TOKEN THEN "200" ELSE "403"
    ELSE "400"

\* What the response carries: res.status(200).send(challenge) sends the
\* string as it is and nothing for a missing one; res.sendStatus sends the
\* status text.
VerifyBody(status, challenge) ==
    CASE status = "200" -> (IF challenge = Undef THEN "" ELSE challenge)
      [] status = "403" -> "Forbidden"
      [] status = "400" -> "Bad Request"

\* app.get("/webhook"): lines 119-145. It reads and writes no session state.
VerifyWebhook(mode, token, challenge) ==
    /\ httpRes' = [status |-> VerifyStatus(mode, token),
                   body |-> VerifyBody(VerifyStatus(mode, token), challenge)]
    /\ step' = Step("get-webhook", Null,
                    [mode |-> mode, token |-> token, challenge |-> challenge], 0)
    /\ emitted' = <<>> /\ sent' = <<>>
    /\ UNCHANGED <<peerVars, browserOfferSdp, whatsappOfferSdp, browserSocket,
                   currentCallId, isOutgoingCall, outgoingCallState, tasks, nEvents>>

NextVerify ==
    \E mode \in VerifyModes, token \in VerifyTokens, ch \in Challenges :
        VerifyWebhook(mode, token, ch)

SpecVerify == Init /\ [][NextVerify]_vars

\* ------------------------------------------------- the provider client
\* JavaScript values of the success field of a response body: the booleans,
\* a string, a number, and a body without the field.
JsTrue == "true"
JsFalse == "false"
SuccessValues == {JsTrue, JsFalse, "'true'", "1", Undef}

\* What axios.post gives back: a response with a body (present) or with none,
\* or an exception, with the provider's error response or without one.
Answered(success, callId) ==
    [kind |-> "answered", present |-> TRUE, success |-> success, call_id |-> callId]
NoBody == [kind |-> "answered", present |-> FALSE, success |-> Undef, call_id |-> Undef]
HttpError == [kind |-> "http-error", present |-> FALSE, success |-> Undef, call_id |-> Undef]
NetworkError == [kind |-> "network-error", present |-> FALSE, success |-> Undef, call_id |-> Undef]
Responses ==
    {Answered(v, c) : v \in SuccessValues, c \in ResponseCallIds}
        \cup {NoBody, HttpError, NetworkError}

\* response.data?.success === true
DataSuccess(resp) == resp.kind = "answered" /\ resp.present /\ resp.success = JsTrue

\* The values the operations return: an object built by the operation, a
\* bare boolean, or the response body as it came (an object, or nothing).
Normalized(ok) == [shape |-> "object", success |-> IF ok THEN JsTrue ELSE JsFalse]
Boolean(ok) == [shape |-> "boolean", success |-> IF ok THEN JsTrue ELSE JsFalse]
RawData(resp) ==
    [shape |-> IF resp.present THEN "object" ELSE "none", success |-> resp.success]

\* initiateWhatsAppCall: lines 460-519.  sdp.length at line 475 throws inside
\* the try for an sdp that is null, before any request is sent.
initiateWhatsAppCall(sdp, resp) ==
    IF ~Truthy(sdp) THEN Normalized(FALSE)
    ELSE IF resp.kind = "answered" THEN Normalized(DataSuccess(resp))
    ELSE Normalized(FALSE)

\* answerCallToWhatsApp: lines 524-553.
answerCallToWhatsApp(resp) ==
    IF resp.kind = "answered" THEN Boolean(DataSuccess(resp)) ELSE Boolean(FALSE)

\* rejectCall: lines 559-587; line 583 returns response.data.
rejectCall(resp) ==
    IF resp.kind = "answered" THEN RawData(resp) ELSE Normalized(FALSE)

\* terminateCall: lines 593-621; line 617 returns response.data.
terminateCall(resp) ==
    IF resp.kind = "answered" THEN RawData(resp) ELSE Normalized(FALSE)

ClientOps == {"connect", "pre_accept", "accept", "reject", "terminate"}
ClientSdps == {Null, "b1"}

ClientResult(op, sdp, resp) ==
    CASE op = "connect" -> initiateWhatsAppCall(sdp, resp)
      [] op \in {"pre_accept", "accept"} -> answerCallToWhatsApp(resp)
      [] op = "reject" -> rejectCall(resp)
      [] op = "terminate" -> terminateCall(resp)

\* One call of a client operation, from its request to the value it returns.
\* The operations read and write no session state.
ClientCall(op, sdp, resp) ==
    /\ sent' = IF op = "connect" /\ ~Truthy(sdp) THEN <<>>
               ELSE <<Rest(op, IF op = "connect" THEN "n1" ELSE "c1",
                           IF op \in {"reject", "terminate"} THEN Null ELSE sdp)>>
    /\ step' = Step("client", op,
                    [sdp |-> sdp, response |-> resp,
                     returned |-> ClientResult(op, sdp, resp)], 0)
    /\ emitted' = <<>> /\ httpRes' = Null
    /\ UNCHANGED <<peerVars, browserOfferSdp, whatsappOfferSdp, browserSocket,
                   currentCallId, isOutgoingCall, outgoingCallState, tasks, nEvents>>

NextClient ==
    \E op \in ClientOps, sdp \in ClientSdps, resp \in Responses : ClientCall(op, sdp, resp)

SpecClient == Init /\ [][NextClient]_vars

\* ------------------------------------------------------------ the claims
HasEmit(evs, ev) == \E i \in 1..Len(evs) : evs[i].ev = ev
HasSent(reqs, action) == \E i \in 1..Len(reqs) : reqs[i].action = action

\* The steps that are a webhook event of the given kinds.
IsWebhook(s, kinds) == s.op = "webhook" /\ s.ev \in kinds
\* The handler steps that call initiateWebRTCBridge.
CallsBridge(s) == IsWebhook(s, {"connect"}) \/ (s.op = "browser-offer" /\ s.ev = "incoming")
\* The steps of a suspended bridge attempt.
BridgeOps == {"bridge-browser-offer-set", "bridge-whatsapp-offer-set", "whatsapp-track",
              "track-timeout", "bridge-browser-answer-created", "bridge-browser-answer-set",
              "bridge-whatsapp-answer-created", "bridge-whatsapp-answer-set",
              "pre-accept-response", "accept-timer", "accept-response"}

\* C1: an accept request is sent only by the timer of an attempt whose
\* pre_accept succeeded, and it carries the call id that pre_accept carried.
C1_AcceptForPreAcceptedCall ==
    \A i \in 1..Len(sent) :
        sent[i].action = "accept" =>
            /\ step.op = "accept-timer"
            /\ Truthy(tasks[step.task].preId)
            /\ sent[i].target = tasks[step.task].preId

\* C2: a webhook event whose call id is not outgoingCallState.callId, and
\* every step of the bridge attempt it may start, leaves isOutgoingCall and
\* outgoingCallState as they were and emits none of outgoing-call-connected,
\* outgoing-call-rejected, outgoing-call-timeout.
C2_NonMatchingEventKeepsOutbound ==
    [][(\/ step'.op = "webhook" /\ step'.id # outgoingCallState.callId
        \/ step'.op \in BridgeOps)
       => /\ UNCHANGED outVars
          /\ ~HasEmit(emitted', "outgoing-call-connected")
          /\ ~HasEmit(emitted', "outgoing-call-rejected")
          /\ ~HasEmit(emitted', "outgoing-call-timeout")]_vars

\* C2 witness: four kinds of event for another call id reached a ringing
\* outbound session.
C2_Witness ==
    /\ IsWebhook(step, {"connect", "terminate", "reject", "timeout"})
    /\ isOutgoingCall
    /\ outgoingCallState.status = "ringing"
    /\ Truthy(outgoingCallState.callId)
    /\ step.id # outgoingCallState.callId

\* One of the three things the guard of initiateWebRTCBridge needs is missing.
Missing(bo, wo, bs) == bo = Null \/ wo \in {Null, Undef} \/ bs = Null

\* C3: a call of initiateWebRTCBridge with an offer or the socket missing
\* starts no attempt, changes no peer state and sends nothing; and peer
\* connections are created, browser-answer emitted and pre_accept sent only
\* by an attempt that found all three present when it was entered.
C3_BridgeOnlyWithBothOffersAndSocket ==
    [][/\ (CallsBridge(step') /\ Missing(browserOfferSdp', whatsappOfferSdp', browserSocket'))
          => /\ Len(tasks') = Len(tasks)
             /\ UNCHANGED peerVars
             /\ sent' = <<>>
             /\ ~HasEmit(emitted', "browser-answer")
       /\ (\/ browserPc' # browserPc
           \/ whatsappPc' # whatsappPc
           \/ HasEmit(emitted', "browser-answer")
           \/ HasSent(sent', "pre_accept"))
          => \/ /\ CallsBridge(step')
                /\ ~Missing(browserOfferSdp', whatsappOfferSdp', browserSocket')
             \/ /\ step'.op \in BridgeOps
                /\ tasks[step'.task].kind = "bridge"
                /\ ~Missing(tasks[step'.task].entry[1], tasks[step'.task].entry[2],
                            tasks[step'.task].entry[3])]_vars

\* C3 witness: the bridge was called a second time with the browser offer
\* still missing, and nothing was started.
C3_Witness ==
    /\ IsWebhook(step, {"connect"})
    /\ nEvents >= 2
    /\ browserOfferSdp = Null
    /\ Truthy(whatsappOfferSdp)
    /\ browserPc = 0
    /\ tasks = <<>>

\* C4: outgoingCallState.status changes only along the outbound table:
\* idle to waiting-for-sdp on a call request, waiting-for-sdp to ringing on a
\* successful initiate response, ringing to connected on a connect event with
\* the stored call id, and any state to idle by a reset.
C4_OutboundTransitionsFollowTable ==
    [][outgoingCallState'.status # outgoingCallState.status
       => LET from == outgoingCallState.status
              to == outgoingCallState'.status
          IN \/ from = "idle" /\ to = "waiting-for-sdp" /\ step'.op = "initiate-call"
             \/ /\ from = "waiting-for-sdp" /\ to = "ringing"
                /\ step'.op = "initiate-response" /\ step'.ev = "ok"
             \/ /\ from = "ringing" /\ to = "connected"
                /\ IsWebhook(step', {"connect"})
                /\ step'.id = outgoingCallState.callId
             \/ to = "idle" /\ ~isOutgoingCall' /\ outgoingCallState' = IdleState]_vars

\* The step in which a bridge attempt ended because the wait for the
\* provider's track timed out.
TrackWaitFailed ==
    /\ step.op \in {"track-timeout", "bridge-whatsapp-offer-set"}
    /\ tasks[step.task].kind = "none"

\* C6: when the wait for the provider's track times out, the attempt emits
\* a failure event to the browser and sends no browser-answer, pre_accept or
\* accept.
C6_TrackTimeoutReported ==
    TrackWaitFailed =>
        /\ Len(emitted) > 0
        /\ ~HasEmit(emitted, "browser-answer")
        /\ sent = <<>>

\* C7: every response to a webhook POST is a 200, whatever the event and
\* whatever became of the bridge attempt it started.
C7_WebhookAlwaysAcknowledged ==
    (step.op \in {"webhook", "webhook-malformed"} \cup BridgeOps /\ httpRes # Null)
        => httpRes = "200"

\* The event that tells the browser the specific outcome of a matched event.
OutcomeEvent(ev) ==
    CASE ev = "terminate" -> "call-ended"
      [] ev = "reject" -> "outgoing-call-rejected"
      [] ev = "timeout" -> "outgoing-call-timeout"

\* C8: every terminate, reject or timeout event emits call-ended; when its
\* call id is the active outbound session's, the outbound state is also reset
\* to idle and the outcome's own event is emitted.
C8_EndEventsAlwaysNotifyBrowser ==
    [][IsWebhook(step', {"terminate", "reject", "timeout"})
       => /\ HasEmit(emitted', "call-ended")
          /\ (isOutgoingCall /\ outgoingCallState.callId = step'.id)
             => /\ ~isOutgoingCall'
                /\ outgoingCallState' = IdleState
                /\ HasEmit(emitted', OutcomeEvent(step'.ev))]_vars

\* The steps that finish the handling of the end of a call.
EndOfCallHandled ==
    \/ IsWebhook(step, {"terminate", "reject", "timeout"})
    \/ step.op \in {"reject-outbound-call", "terminate-outbound-call"} /\ sent = <<>>
    \/ step.op \in {"reject-outbound-response", "terminate-outbound-response"}

\* C9: once the end of a call has been handled, every session field is back
\* at its initial value.
C9_SessionResetTogether ==
    EndOfCallHandled =>
        /\ browserOfferSdp = Null /\ whatsappOfferSdp = Null
        /\ currentCallId = Null
        /\ browserPc = 0 /\ browserStream = 0
        /\ whatsappPc = 0 /\ whatsappStream = 0
        /\ ~isOutgoingCall
        /\ outgoingCallState = IdleState

\* A session is active: an outbound call is under way or a bridge attempt
\* is in flight.
SessionActive ==
    \/ outgoingCallState.status # "idle"
    \/ \E t \in 1..Len(tasks) : tasks[t].kind = "bridge"

\* C10: a call request while the outbound status is not idle, and a connect
\* event for another call while a session is active, start nothing and leave
\* the session's fields as they were.
C10_SingleSession ==
    [][/\ (step'.op = "initiate-call" /\ outgoingCallState.status # "idle")
          => UNCHANGED <<outVars, browserOfferSdp, whatsappOfferSdp, currentCallId>>
       /\ (/\ IsWebhook(step', {"connect"})
           /\ SessionActive
           /\ step'.id # currentCallId
           /\ step'.id # outgoingCallState.callId)
          => /\ UNCHANGED <<outVars, browserOfferSdp, whatsappOfferSdp, currentCallId>>
             /\ tasks' = tasks]_vars

\* a is the text a=setup:actpass at tokens i, i+1.
IsActpassAt(a, i) == i + 1 <= Len(a) /\ a[i] = "a=" /\ a[i + 1] = "setup:actpass"

\* f is a with exactly one setup:actpass turned into setup:active.
OneSubstitution(a, f) ==
    /\ Len(f) = Len(a)
    /\ \E i \in 1..Len(a) :
          /\ a[i] = "setup:actpass" /\ f[i] = "setup:active"
          /\ \A j \in 1..Len(a) : j # i => f[j] = a[j]

\* f is a with its first a=setup:actpass turned into a=setup:active, or a
\* itself when a has none.
FirstSubstitutionOrNone(a, f) ==
    IF \E i \in 1..Len(a) : IsActpassAt(a, i)
    THEN \E i \in 1..Len(a) :
            /\ IsActpassAt(a, i)
            /\ \A j \in 1..(i - 1) : ~IsActpassAt(a, j)
            /\ f = [a EXCEPT ![i + 1] = "setup:active"]
    ELSE f = a

\* The requests of the last step that carry an answer.
AnswerRequests == {i \in 1..Len(sent) : sent[i].action \in {"pre_accept", "accept"}}

\* C5 as claimed: every answer sent to the provider is the engine's answer
\* with exactly one setup:actpass replaced by setup:active.
C5_ExactlyOneSubstitution ==
    \A i \in AnswerRequests : OneSubstitution(tasks[step.task].waAnswer, sent[i].sdp)

\* C5 as amended: every answer sent to the provider in pre_accept or accept
\* is the engine's answer with its first a=setup:actpass replaced by
\* a=setup:active and nothing else changed, and is the engine's answer itself
\* when that holds no a=setup:actpass.
C5_FirstMatchRewritten ==
    \A i \in AnswerRequests :
        FirstSubstitutionOrNone(tasks[step.task].waAnswer, sent[i].sdp)

\* C5 witness: an answer with the attribute twice was sent in accept with
\* only the first rewritten.
C5_Witness ==
    /\ step.op = "accept-timer"
    /\ tasks[step.task].waAnswer = <<"a=", "setup:actpass", "a=", "setup:actpass">>
    /\ sent[1].sdp = <<"a=", "setup:active", "a=", "setup:actpass">>

\* The step started a bridge attempt that entered with provider offer wo.
BridgeStartedWith(wo) ==
    /\ Len(tasks') = Len(tasks) + 1
    /\ tasks'[Len(tasks')].kind = "bridge"
    /\ tasks'[Len(tasks')].entry[2] = wo

\* C11: a connect event that matches no outbound session emits
\* call-is-coming with its call id, and a bridge attempt entered with that
\* event's offer starts as soon as the browser's offer is there too: at the
\* connect event when the browser's offer came first, at the browser-offer
\* when the connect event came first.
C11_InboundConnectBridgesInEitherOrder ==
    [][/\ (/\ IsWebhook(step', {"connect"})
           /\ ~(isOutgoingCall /\ outgoingCallState.callId = step'.id))
          => /\ HasEmit(emitted', "call-is-coming")
             /\ emitted'[1].data[1] = step'.id
             /\ (Truthy(whatsappOfferSdp') /\ Truthy(browserOfferSdp))
                => BridgeStartedWith(whatsappOfferSdp')
       /\ (step'.op = "browser-offer" /\ Truthy(whatsappOfferSdp))
          => BridgeStartedWith(whatsappOfferSdp)]_vars

\* C12: an accepted call request for N stores N; a browser-offer with SDP S
\* while the status is waiting-for-sdp sends the provider a connect request
\* for the stored number with S and starts no bridge attempt; when that
\* request succeeds the status becomes ringing, the returned call id is
\* stored and outgoing-call-initiated is emitted with it; when it fails the
\* outbound state is reset and webrtc-error is emitted; the response starts
\* no bridge attempt either.
C12_OfferWhileWaitingInitiatesCall ==
    [][/\ (step'.op = "initiate-call" /\ httpRes' = "200")
          => /\ outgoingCallState'.phoneNumber = step'.id
             /\ outgoingCallState'.status = "waiting-for-sdp"
       /\ (step'.op = "browser-offer" /\ outgoingCallState.status = "waiting-for-sdp")
          => /\ sent' = <<Rest("connect", outgoingCallState.phoneNumber, browserOfferSdp')>>
             /\ Len(tasks') = Len(tasks) + 1
             /\ tasks'[Len(tasks')].kind = "offer"
             /\ UNCHANGED peerVars
             /\ UNCHANGED outVars
       /\ (step'.op = "initiate-response" /\ step'.ev = "ok")
          => /\ outgoingCallState'.status = "ringing"
             /\ outgoingCallState'.callId =
                   (IF step'.id = Undef THEN GeneratedCallId ELSE step'.id)
             /\ emitted' = <<Emit("outgoing-call-initiated", "all",
                                  <<outgoingCallState'.callId,
                                    outgoingCallState.phoneNumber,
                                    outgoingCallState.callerName>>)>>
       /\ (step'.op = "initiate-response" /\ step'.ev = "failed")
          => /\ outgoingCallState' = IdleState
             /\ ~isOutgoingCall'
             /\ HasEmit(emitted', "webrtc-error")
       /\ step'.op = "initiate-response"
          => /\ UNCHANGED peerVars
             /\ \A t \in 1..Len(tasks') : tasks'[t].kind = "bridge" => tasks[t].kind = "bridge"
             /\ Len(tasks') = Len(tasks)
             /\ sent' = <<>>]_vars

\* C12 witness: the provider accepted the initiate for the requested number
\* and the call rings with the returned id.
C12_Witness ==
    /\ step.op = "initiate-response" /\ step.ev = "ok"
    /\ step.id = "c1"
    /\ isOutgoingCall
    /\ outgoingCallState.status = "ringing"
    /\ outgoingCallState.callId = "c1"
    /\ outgoingCallState.phoneNumber \in PhoneNumbers
    /\ browserPc = 0

\* C13: a verification request is answered 400 when mode or token is missing
\* (not in the query, or empty), 200 with the challenge as the body when mode
\* is "subscribe" and the token is the configured one, and 403 in every other
\* case.
C13_VerificationAnswers ==
    step.op = "get-webhook" =>
        LET q == step.ev
            absent(v) == v \in {Undef, ""}
        IN  /\ (absent(q.mode) \/ absent(q.token)) => httpRes.status = "400"
            /\ (q.mode = "subscribe" /\ q.token = VERIFY_TOKEN)
               => /\ httpRes.status = "200"
                  /\ q.challenge # Undef => httpRes.body = q.challenge
                  /\ q.challenge = Undef => httpRes.body = ""
            /\ (/\ ~absent(q.mode) /\ ~absent(q.token)
                /\ ~(q.mode = "subscribe" /\ q.token = VERIFY_TOKEN))
               => httpRes.status = "403"

\* C13 witness: the right token with another mode is refused.
C13_Witness ==
    /\ step.op = "get-webhook"
    /\ step.ev.mode = "unsubscribe"
    /\ step.ev.token = VERIFY_TOKEN
    /\ httpRes.status = "403"

\* Every a in the log is preceded by a b.
Before(log, b, a) ==
    \A i \in 1..Len(log) : log[i] = a => \E j \in 1..(i - 1) : log[j] = b

\* C14: in every bridge attempt the browser's tracks are added to the
\* provider peer and then the provider's track to the browser peer before
\* either answer is created, browser-answer is emitted before pre_accept is
\* sent, and pre_accept has succeeded before accept is sent.
C14_BridgeStepsInOrder ==
    \A t \in 1..Len(tasks) :
        LET log == tasks[t].log
        IN  /\ Before(log, "forwardB", "forwardW")
            /\ Before(log, "forwardW", "createAnswerB")
            /\ Before(log, "forwardW", "createAnswerW")
            /\ Before(log, "browser-answer", "pre_accept")
            /\ Before(log, "pre_accept-ok", "accept")
            /\ Before(log, "pre_accept", "pre_accept-ok")

\* C14 witness: an attempt that went all the way to its accept request.
C14_Witness ==
    \E t \in 1..Len(tasks) :
        /\ tasks[t].pc = "accept"
        /\ tasks[t].log = <<"forwardB", "forwardW", "createAnswerB", "browser-answer",
                            "createAnswerW", "pre_accept", "pre_accept-ok", "accept">>

Has(log, a) == \E i \in 1..Len(log) : log[i] = a

\* C15: start-browser-timer is emitted only when the accept request of an
\* attempt reports success, and that attempt's pre_accept had reported
\* success; an accept request is sent only by the timer of an attempt whose
\* pre_accept succeeded, with the SDP that pre_accept carried; an attempt
\* whose pre_accept failed ends there.
C15_TimerOnlyAfterBothSucceeded ==
    [][/\ step'.op = "bridge-whatsapp-answer-set"
          => /\ Len(sent') = 1 /\ sent'[1].action = "pre_accept"
             /\ tasks'[step'.task].finalSdp = sent'[1].sdp
       /\ HasSent(sent', "accept")
          => /\ step'.op = "accept-timer"
             /\ Len(sent') = 1
             /\ tasks[step'.task].log[Len(tasks[step'.task].log)] = "pre_accept-ok"
             /\ sent'[1].sdp = tasks[step'.task].finalSdp
       /\ HasEmit(emitted', "start-browser-timer")
          => /\ step'.op = "accept-response" /\ step'.ev = "ok"
             /\ Has(tasks[step'.task].log, "pre_accept-ok")
             /\ Has(tasks[step'.task].log, "accept")
       /\ (step'.op = "pre-accept-response" /\ step'.ev = "failed")
          => tasks'[step'.task].kind = "none"
       /\ (step'.op = "accept-response" /\ step'.ev = "failed")
          => emitted' = <<>>]_vars

\* C15 witness: the accept request succeeded and the browser was told.
C15_Witness ==
    /\ step.op = "accept-response" /\ step.ev = "ok"
    /\ emitted = <<Emit("start-browser-timer", browserSocket, <<>>)>>
    /\ browserSocket \in Sockets

\* C16 as stated: a successful pre_accept clears both stored offers, and a
\* failed pre_accept leaves the session fields, the two offers among them,
\* as they were.
C16_OffersKeptOnFailure ==
    [][/\ (step'.op = "pre-accept-response" /\ step'.ev = "ok")
          => browserOfferSdp' = Null /\ whatsappOfferSdp' = Null
       /\ (step'.op = "pre-accept-response" /\ step'.ev = "failed")
          => UNCHANGED <<peerVars, browserOfferSdp, whatsappOfferSdp, browserSocket,
                         currentCallId, outVars>>]_vars

\* C16 as the code has it: both stored offers are cleared when pre_accept
\* has settled, with success or with failure; after a failure the attempt
\* ends and the other session fields are left as they were.
C16_OffersClearedEitherWay ==
    [][/\ step'.op = "pre-accept-response"
          => browserOfferSdp' = Null /\ whatsappOfferSdp' = Null
       /\ (step'.op = "pre-accept-response" /\ step'.ev = "failed")
          => /\ tasks'[step'.task].kind = "none"
             /\ UNCHANGED <<peerVars, browserSocket, currentCallId, outVars>>]_vars

\* C16 witness: after a failed pre_accept the offers are gone, the peers and
\* the call id are still there.
C16_Witness ==
    /\ step.op = "pre-accept-response" /\ step.ev = "failed"
    /\ browserOfferSdp = Null /\ whatsappOfferSdp = Null
    /\ browserPc # 0 /\ whatsappPc # 0
    /\ currentCallId \in CallIds

\* C17: every client operation returns a value; the value reports success
\* exactly when the request was answered with a body whose success field is
\* the boolean true, and in every other case it is a failure result whose
\* success is the boolean false.
C17_ClientResultsNormalized ==
    step.op = "client" =>
        LET r == step.ev.returned
            resp == step.ev.response
            requested == ~(step.id = "connect" /\ step.ev.sdp = Null)
            confirmed == /\ requested
                         /\ resp.kind = "answered" /\ resp.present
                         /\ resp.success = JsTrue
        IN  /\ r.shape \in {"object", "boolean"}
            /\ r.success = JsTrue <=> confirmed
            /\ ~confirmed => r.success = JsFalse

\* The bridge attempts that are suspended at an await or at their timer.
BridgesInFlight == {t \in 1..Len(tasks) : tasks[t].kind = "bridge"}

\* C18: at most one bridge attempt is in flight, and a browser-offer or a
\* connect event that arrives while an attempt is in flight starts no
\* further attempt and replaces no peer.
C18_OneBridgeAtATime ==
    [][/\ Cardinality(BridgesInFlight') <= 1
       /\ (CallsBridge(step') /\ BridgesInFlight # {})
          => /\ BridgesInFlight' = BridgesInFlight
             /\ UNCHANGED peerVars]_vars

\* C19: the pre_accept request of a bridge attempt goes to the call whose
\* connect event brought the offer that the attempt set on its provider peer,
\* whatever events for other calls arrived in between.
C19_PreAcceptForAnsweredCall ==
    [][step'.op = "bridge-whatsapp-answer-set"
          => /\ Len(sent') = 1 /\ sent'[1].action = "pre_accept"
             /\ sent'[1].target \in CallIds
             /\ OfferOf(sent'[1].target) = tasks[step'.task].entry[2]]_vars

\* The initiate requests in flight that were sent for the call request now
\* stored.
PendingInitiates ==
    {t \in 1..Len(tasks) : tasks[t].kind = "offer" /\ tasks[t].req = "current"}

\* C20: a browser-offer sends an initiate (connect) request only when none
\* is in flight for the stored call request, so that one accepted call
\* request leads to at most one initiate request.
C20_OneInitiatePerRequest ==
    [][(step'.op = "browser-offer" /\ HasSent(sent', "connect"))
          => PendingInitiates = {}]_vars

\* C21: a connect event that carries the call id stored for the outbound
\* call sets the status connected and emits outgoing-call-connected; and no
\* initiate request returns the call id of a connect event that was handled
\* as an incoming call while the request was in flight.
C21_ConnectOfOwnCallIsOutbound ==
    [][/\ (/\ IsWebhook(step', {"connect"})
           /\ isOutgoingCall /\ outgoingCallState.callId = step'.id)
          => /\ outgoingCallState'.status = "connected"
             /\ HasEmit(emitted', "outgoing-call-connected")
             /\ ~HasEmit(emitted', "call-is-coming")
       /\ (/\ step'.op = "initiate-response" /\ step'.ev = "ok"
           /\ tasks[step'.task].req = "current")
          => ~Has(tasks[step'.task].log, step'.id)]_vars

\* C22: a reject-outbound-call resets the outbound state to idle and emits
\* outgoing-call-rejected with the call id and the phone number that the
\* session held when the browser asked for the reject.
C22_RejectCarriesSessionValues ==
    [][/\ step'.op = "reject-outbound-call"
          => \/ /\ Len(tasks') = Len(tasks) + 1
                /\ HasSent(sent', "reject")
             \/ /\ outgoingCallState' = IdleState /\ ~isOutgoingCall'
                /\ emitted' = <<Emit("outgoing-call-rejected", "all",
                                     <<outgoingCallState.callId,
                                       outgoingCallState.phoneNumber>>)>>
       /\ step'.op = "reject-outbound-response"
          => /\ outgoingCallState' = IdleState /\ ~isOutgoingCall'
             /\ emitted' = <<Emit("outgoing-call-rejected", "all",
                                  <<tasks[step'.task].entry[1],
                                    tasks[step'.task].entry[2]>>)>>]_vars

====
